---- MODULE Spec2Model ----
(***************************************************************************)
(* Model of lepus/models.py: the data-model layer of a CTF scoring         *)
(* application (Django ORM models and their derived properties).           *)
(*                                                                         *)
(* The backing store is modelled table by table.  A table is the sequence  *)
(* of its rows in primary-key order (the row with id i is element i), so   *)
(* an insert appends and nothing is ever deleted.                          *)
(***************************************************************************)
EXTENDS Integers, Sequences, FiniteSets, TLC

(***************************************************************************)
(* Bounds of the model.                                                    *)
(***************************************************************************)
MaxRows == 3
MaxFiles == 3
MaxClock == 3
MaxConns == 4
StartTime == 28
MaxSeconds == 5

(***************************************************************************)
(* Primary keys of the rows the scoring tables refer to.  None is the NULL *)
(* of a nullable foreign key (Answer.flag); real ids are positive.         *)
(***************************************************************************)
None == 0
Users == {1, 2}
Teams == {1, 2}
Questions == {1, 2}
Flags == {1, 2, 3}
Tokens == {"tokA", "tokB"}
AttackValues == {7, 9}
IPs == {"10.0.0.1", "10.0.0.2"}
Names == {"red", "blue", "green"}
Raws == {"pw1", "pw2"}

\* settings.TEAM_TOKEN_INTERVAL (seconds) and settings.TEAM_TOKEN_SECRET_KEY (a
\* string, held as the sequence of its characters).
TEAM_TOKEN_INTERVAL == 3
TEAM_TOKEN_SECRET_KEY == <<"k", "1">>

\* NULL of a nullable DateTimeField (last_score_time).
NoTime == -1
Procs == {1, 2}

\* The Flag table (flag string omitted: it is unique per row, like the id).
Flag ==
    (1 :> [question |-> 1, point |-> 50]) @@ (2 :> [question |-> 1, point |-> 100])
        @@ (3 :> [question |-> 2, point |-> 30])

\* Question.ordering (unique): the default order of every Question query.
QuestionOrdering == (1 :> 20) @@ (2 :> 10)

VARIABLES
    answers,        \* the Answer table
    attackPoints,   \* the AttackPoint table
    res,            \* outcome of the last insert into either table
    isPublic,       \* Question.is_public of every question
    sub,            \* the concurrent answer submissions, one per request
    files,          \* the File table
    conns,          \* the UserConnection table
    clock,          \* the wall clock read by the timestamps
    call,           \* the UserConnection.update calls in progress
    passed,         \* the (user, ip) pairs of the calls that have returned
    unixTime,       \* time.time(), in whole seconds
    tokenLog,       \* the Team.token values read so far
    teamRows,       \* the Team table
    inst,           \* the Team instance a request holds in memory
    pwRet           \* the last check_password call and what it returned

scoreVars == <<answers, attackPoints, res>>
fileVars == <<files>>
connVars == <<conns, clock, call, passed>>
tokenVars == <<unixTime, tokenLog>>
pwVars == <<teamRows, inst, pwRet>>
vars == <<scoreVars, isPublic, sub, fileVars, connVars, tokenVars, pwVars>>

(***************************************************************************)
(* A QuerySet is the sequence of the rows a filter keeps, in table order   *)
(* (SelectSeq); the loops of the code add up over it row by row.           *)
(***************************************************************************)
RECURSIVE SumSeq(_)
SumSeq(s) == IF s = <<>> THEN 0 ELSE Head(s) + SumSeq(Tail(s))

\* [a.flag.point for a in answers] and [p.point for p in attack_points].
FlagPointsIn(found) == [i \in 1..Len(found) |-> Flag[found[i].flag].point]

PointsIn(found) == [i \in 1..Len(found) |-> found[i].point]

(***************************************************************************)
(* Team.points                                                             *)
(***************************************************************************)
TeamAnswers(t) ==
    LET OfTeam(a) == a.team = t
        Correct(a) == a.flag # None
    IN  SelectSeq(SelectSeq(answers, OfTeam), Correct)

\* Team.points with the AttackPoint loop left out.
TeamPointsAnswersOnly(t) == SumSeq(FlagPointsIn(TeamAnswers(t)))

TeamPoints(t) ==
    LET OfTeam(p) == p.team = t
    IN  SumSeq(FlagPointsIn(TeamAnswers(t))) + SumSeq(PointsIn(SelectSeq(attackPoints, OfTeam)))

(***************************************************************************)
(* User.points                                                             *)
(***************************************************************************)
UserAnswers(u) ==
    LET OfUser(a) == a.user = u
        Correct(a) == a.flag # None
    IN  SelectSeq(SelectSeq(answers, OfUser), Correct)

UserPoints(u) ==
    LET OfUser(p) == p.user = u
    IN  SumSeq(FlagPointsIn(UserAnswers(u))) + SumSeq(PointsIn(SelectSeq(attackPoints, OfUser)))

(***************************************************************************)
(* QuestionManager.public and Team.questions.  Every Question query comes  *)
(* back in Meta.ordering order: ascending Question.ordering.               *)
(***************************************************************************)
RECURSIVE OrderBy(_, _)
OrderBy(S, key) ==
    IF S = {} THEN <<>>
    ELSE LET first == CHOOSE x \in S : \A y \in S : key[x] <= key[y]
         IN  <<first>> \o OrderBy(S \ {first}, key)

\* QuestionManager.public with the is_public filter left out.
QuestionPublicAll == OrderBy(Questions, QuestionOrdering)

QuestionPublic == OrderBy({q \in Questions : isPublic[q]}, QuestionOrdering)

\* The entry Team.questions appends for one question.
QuestionEntry(t, q) ==
    LET OfTeamAndQuestion(a) == a.team = t /\ a.flag # None /\ Flag[a.flag].question = q
        found == SelectSeq(answers, OfTeamAndQuestion)
    IN  [id |-> q, flags |-> Len(found), points |-> SumSeq(FlagPointsIn(found))]

TeamQuestions(t) == [i \in 1..Len(QuestionPublic) |-> QuestionEntry(t, QuestionPublic[i])]

(***************************************************************************)
(* The store's uniqueness constraints.  A NULL never equals a NULL in a    *)
(* unique index, so rows with flag = None never collide.                   *)
(***************************************************************************)
\* Answer with no unique_together at all.
AnswerUniqueMissing(row) == TRUE

\* Answer with unique_together = (('user', 'flag'),).
AnswerUniqueUserFlag(row) ==
    \A i \in 1..Len(answers) :
        ~(answers[i].user = row.user /\ answers[i].flag = row.flag /\ row.flag # None)

AnswerUnique(row) ==
    \A i \in 1..Len(answers) :
        ~(answers[i].team = row.team /\ answers[i].flag = row.flag /\ row.flag # None)

\* AttackPoint with the token unique per team only.
AttackPointUniquePerTeam(row) ==
    \A i \in 1..Len(attackPoints) :
        ~(attackPoints[i].token = row.token /\ attackPoints[i].team = row.team)

AttackPointUnique(row) ==
    \A i \in 1..Len(attackPoints) : attackPoints[i].token # row.token

(***************************************************************************)
(* Inserts (Model.objects.create).  res is the outcome of the last insert: *)
(* "created", or the store's "IntegrityError", which leaves the table as   *)
(* it was.                                                                 *)
(***************************************************************************)
AnswerCreate(u, t, q, f) ==
    LET row == [user |-> u, team |-> t, question |-> q, flag |-> f]
    IN  IF AnswerUnique(row)
        THEN /\ Len(answers) + Len(attackPoints) < MaxRows
             /\ answers' = Append(answers, row)
             /\ res' = "created"
             /\ UNCHANGED attackPoints
        ELSE /\ res' = "IntegrityError"
             /\ UNCHANGED <<answers, attackPoints>>

AttackPointCreate(u, t, q, tok, pt) ==
    LET row == [user |-> u, team |-> t, question |-> q, token |-> tok, point |-> pt]
    IN  IF AttackPointUnique(row)
        THEN /\ Len(answers) + Len(attackPoints) < MaxRows
             /\ attackPoints' = Append(attackPoints, row)
             /\ res' = "created"
             /\ UNCHANGED answers
        ELSE /\ res' = "IntegrityError"
             /\ UNCHANGED <<answers, attackPoints>>

InsertAnswer(u, t, q, f) ==
    /\ AnswerCreate(u, t, q, f)
    /\ UNCHANGED <<isPublic, sub, fileVars, connVars, tokenVars, pwVars>>

InsertAttackPoint(u, t, q, tok, pt) ==
    /\ AttackPointCreate(u, t, q, tok, pt)
    /\ UNCHANGED <<isPublic, sub, fileVars, connVars, tokenVars, pwVars>>

\* Question.is_public is edited (a save of the Question row).
SetQuestionPublic(q, b) ==
    /\ isPublic[q] # b
    /\ isPublic' = [isPublic EXCEPT ![q] = b]
    /\ UNCHANGED <<scoreVars, sub, fileVars, connVars, tokenVars, pwVars>>

(***************************************************************************)
(* Requests.  Each request sends one insert to the store, which takes the  *)
(* inserts one at a time, in any order: the code holds no lock of its own  *)
(* and the unique indexes alone decide.  A finished request keeps what it  *)
(* saw: the outcome, and its table right before and right after.           *)
(***************************************************************************)
NoSubmission ==
    [pc |-> "idle", table |-> "none", row |-> None, before |-> <<>>, after |-> <<>>]

SubmitAnswer(p, u, t, q, f) ==
    /\ sub[p].pc = "idle"
    /\ sub' = [sub EXCEPT ![p] =
                  [pc |-> "sent", table |-> "Answer",
                   row |-> [user |-> u, team |-> t, question |-> q, flag |-> f],
                   before |-> <<>>, after |-> <<>>]]
    /\ UNCHANGED <<scoreVars, isPublic, fileVars, connVars, tokenVars, pwVars>>

SubmitAttackPoint(p, u, t, q, tok, pt) ==
    /\ sub[p].pc = "idle"
    /\ sub' = [sub EXCEPT ![p] =
                  [pc |-> "sent", table |-> "AttackPoint",
                   row |-> [user |-> u, team |-> t, question |-> q, token |-> tok, point |-> pt],
                   before |-> <<>>, after |-> <<>>]]
    /\ UNCHANGED <<scoreVars, isPublic, fileVars, connVars, tokenVars, pwVars>>

StoreInsertAnswer(p) ==
    /\ sub[p].pc = "sent"
    /\ sub[p].table = "Answer"
    /\ AnswerCreate(sub[p].row.user, sub[p].row.team, sub[p].row.question, sub[p].row.flag)
    /\ sub' = [sub EXCEPT ![p].pc = res', ![p].before = answers, ![p].after = answers']
    /\ UNCHANGED <<isPublic, fileVars, connVars, tokenVars, pwVars>>

StoreInsertAttackPoint(p) ==
    /\ sub[p].pc = "sent"
    /\ sub[p].table = "AttackPoint"
    /\ AttackPointCreate(sub[p].row.user, sub[p].row.team, sub[p].row.question,
                         sub[p].row.token, sub[p].row.point)
    /\ sub' = [sub EXCEPT ![p].pc = res', ![p].before = attackPoints, ![p].after = attackPoints']
    /\ UNCHANGED <<isPublic, fileVars, connVars, tokenVars, pwVars>>

(***************************************************************************)
(* Question.files and FileManager.public.  A File row is named by its      *)
(* position in the table.                                                  *)
(***************************************************************************)
QuestionFiles(q) ==
    {i \in 1..Len(files) : files[i].question = q /\ files[i].is_public}

FilePublic ==
    {i \in 1..Len(files) : files[i].is_public /\ isPublic[files[i].question]}

AddFile(q, b) ==
    /\ Len(files) < MaxFiles
    /\ files' = Append(files, [question |-> q, is_public |-> b])
    /\ UNCHANGED <<scoreVars, isPublic, sub, connVars, tokenVars, pwVars>>

SetFilePublic(i, b) ==
    /\ i \in 1..Len(files)
    /\ files[i].is_public # b
    /\ files' = [files EXCEPT ![i].is_public = b]
    /\ UNCHANGED <<scoreVars, isPublic, sub, connVars, tokenVars, pwVars>>

(***************************************************************************)
(* UserConnection.update and User.ip.                                      *)
(*                                                                         *)
(* update is get_or_create followed, for a row that was not created, by a  *)
(* save.  get_or_create is a SELECT, then on a miss an INSERT, then on an  *)
(* IntegrityError a second SELECT; another request may run between any two *)
(* of these statements.  created_at is auto_now_add (set by the INSERT),   *)
(* updated_at is auto_now (set to the clock by the INSERT and by every     *)
(* save, whatever the instance holds: line 214 assigns the value that save *)
(* assigns again).                                                         *)
(***************************************************************************)
NoRow == [user |-> None, ip |-> "", created_at |-> 0, updated_at |-> 0]

NoCall ==
    [pc |-> "idle", user |-> None, ip |-> "", began |-> 0,
     saw |-> [found |-> FALSE, id |-> None, row |-> NoRow],
     id |-> None, obj |-> NoRow, created |-> FALSE]

ConnIds(u, ip) == {i \in 1..Len(conns) : conns[i].user = u /\ conns[i].ip = ip}

\* unique_together = (('user', 'ip'),), and the same with the constraint missing.
ConnUniqueMissing(u, ip) == TRUE

ConnUnique(u, ip) == ConnIds(u, ip) = {}

\* The row objects.get(user=u, ip=ip) returns.
ConnGet(u, ip) == CHOOSE i \in ConnIds(u, ip) : \A j \in ConnIds(u, ip) : i <= j

\* What the row of pair (u, ip) held when the call began: a snapshot kept to
\* state what the call changed.
ConnSeen(u, ip) ==
    IF ConnIds(u, ip) = {} THEN [found |-> FALSE, id |-> None, row |-> NoRow]
    ELSE [found |-> TRUE, id |-> ConnGet(u, ip), row |-> conns[ConnGet(u, ip)]]

Begin(p, u, ip, now) ==
    /\ call' = [call EXCEPT ![p] =
                   [NoCall EXCEPT !.pc = "get", !.user = u, !.ip = ip, !.began = now,
                                  !.saw = ConnSeen(u, ip)]]
    /\ UNCHANGED <<conns, passed>>
    /\ UNCHANGED <<scoreVars, isPublic, sub, fileVars, tokenVars, pwVars>>

\* A request's one call; and the next call of a worker that takes its
\* requests one after the other and reads a clock later than every earlier
\* reading.
Call(p, u, ip) ==
    /\ call[p].pc = "idle"
    /\ Begin(p, u, ip, clock)
    /\ UNCHANGED clock

CallLater(p, u, ip) ==
    /\ call[p].pc \in {"idle", "done"}
    /\ clock < MaxClock
    /\ Begin(p, u, ip, clock + 1)
    /\ clock' = clock + 1

Get(p) ==
    LET c == call[p]
    IN  /\ c.pc = "get"
        /\ call' = [call EXCEPT ![p] =
                       IF ConnIds(c.user, c.ip) = {}
                       THEN [c EXCEPT !.pc = "create"]
                       ELSE [c EXCEPT !.pc = "save", !.id = ConnGet(c.user, c.ip),
                                      !.obj = conns[ConnGet(c.user, c.ip)]]]
        /\ UNCHANGED <<conns, clock, passed>>
        /\ UNCHANGED <<scoreVars, isPublic, sub, fileVars, tokenVars, pwVars>>

Create(p) ==
    LET c == call[p]
        row == [user |-> c.user, ip |-> c.ip, created_at |-> clock, updated_at |-> clock]
    IN  /\ c.pc = "create"
        /\ IF ConnUnique(c.user, c.ip)
           THEN /\ Len(conns) < MaxConns
                /\ conns' = Append(conns, row)
                /\ call' = [call EXCEPT ![p] =
                               [c EXCEPT !.pc = "ret", !.id = Len(conns) + 1, !.obj = row,
                                         !.created = TRUE]]
           ELSE /\ conns' = conns
                /\ call' = [call EXCEPT ![p] =
                               [c EXCEPT !.pc = "save", !.id = ConnGet(c.user, c.ip),
                                         !.obj = conns[ConnGet(c.user, c.ip)]]]
        /\ UNCHANGED <<clock, passed>>
        /\ UNCHANGED <<scoreVars, isPublic, sub, fileVars, tokenVars, pwVars>>

\* The row a save writes: the instance's fields, updated_at by auto_now.  And
\* the same without the refresh of updated_at.
SavedRowStale(p) == call[p].obj

SavedRow(p) == [call[p].obj EXCEPT !.updated_at = clock]

Save(p) ==
    LET c == call[p]
    IN  /\ c.pc = "save"
        /\ conns' = [conns EXCEPT ![c.id] = SavedRow(p)]
        /\ call' = [call EXCEPT ![p] = [c EXCEPT !.pc = "ret", !.obj = SavedRow(p)]]
        /\ UNCHANGED <<clock, passed>>
        /\ UNCHANGED <<scoreVars, isPublic, sub, fileVars, tokenVars, pwVars>>

Return(p) ==
    /\ call[p].pc = "ret"
    /\ passed' = passed \cup {<<call[p].user, call[p].ip>>}
    /\ call' = [call EXCEPT ![p].pc = "done"]
    /\ UNCHANGED <<conns, clock>>
    /\ UNCHANGED <<scoreVars, isPublic, sub, fileVars, tokenVars, pwVars>>

Tick ==
    /\ clock < MaxClock
    /\ clock' = clock + 1
    /\ UNCHANGED <<conns, call, passed>>
    /\ UNCHANGED <<scoreVars, isPublic, sub, fileVars, tokenVars, pwVars>>

\* The None that User.ip returns.
NoIp == "None"

\* User.ip: the first row of userconnection_set.order_by("-updated_at"), None
\* on IndexError.  Rows with equal updated_at come in an order the store
\* chooses, so the value is one of a set.
UserIp(u) ==
    LET mine == {i \in 1..Len(conns) : conns[i].user = u}
        first == {i \in mine : \A j \in mine : conns[j].updated_at <= conns[i].updated_at}
    IN  IF mine = {} THEN {NoIp} ELSE {conns[i].ip : i \in first}

(***************************************************************************)
(* Team.token: the SHA-1 hex digest of "<secret>_<id>_<bucket>", where     *)
(* bucket = int(time.time() / interval).  Time is counted in whole seconds *)
(* since the epoch (never negative), so int() of the quotient is the       *)
(* integer quotient.  The digest is taken to be collision-free: it is      *)
(* modelled as a value that determines its message, nothing more.          *)
(***************************************************************************)
Digit(d) == <<"0", "1", "2", "3", "4", "5", "6", "7", "8", "9">>[d + 1]

\* "{0}".format(n) for an integer n >= 0.
RECURSIVE Str(_)
Str(n) == IF n < 10 THEN <<Digit(n)>> ELSE Str(n \div 10) \o <<Digit(n % 10)>>

Format(key, id, bucket) == key \o <<"_">> \o Str(id) \o <<"_">> \o Str(bucket)

Sha1(message) == [sha1 |-> message]

\* The bucket rounded to the nearest integer instead of truncated.
BucketRounded(t) == (2 * t + TEAM_TOKEN_INTERVAL) \div (2 * TEAM_TOKEN_INTERVAL)

Bucket(t) == t \div TEAM_TOKEN_INTERVAL

TeamToken(team, t) == Sha1(Format(TEAM_TOKEN_SECRET_KEY, team, Bucket(t)))

ReadToken(team) ==
    /\ tokenLog' = tokenLog \cup
                      {[team |-> team, at |-> unixTime, token |-> TeamToken(team, unixTime)]}
    /\ UNCHANGED unixTime
    /\ UNCHANGED <<scoreVars, isPublic, sub, fileVars, connVars, pwVars>>

TickTime ==
    /\ unixTime < StartTime + MaxSeconds
    /\ unixTime' = unixTime + 1
    /\ UNCHANGED tokenLog
    /\ UNCHANGED <<scoreVars, isPublic, sub, fileVars, connVars, pwVars>>

(***************************************************************************)
(* Team.set_password and Team.check_password.                              *)
(*                                                                         *)
(* An encoded password names its algorithm and salt and is a one-way image *)
(* of the raw password: it is modelled as the record of the three, read    *)
(* only by Verify.  django's check_password(raw, encoded, setter) answers  *)
(* False for an unusable password; otherwise it verifies raw against       *)
(* encoded with the algorithm encoded names, and when raw is right and     *)
(* that algorithm is not the preferred one it calls setter(raw).           *)
(***************************************************************************)
Preferred == "pbkdf2_sha256"
Legacy == "sha1"
Unusable == "!"

MakePassword(raw, salt) == [algorithm |-> Preferred, salt |-> salt, raw |-> raw]

Verify(raw, encoded) == encoded.algorithm # Unusable /\ encoded.raw = raw

MustUpdate(encoded) == encoded.algorithm # Preferred

NoInstance ==
    [loaded |-> FALSE, id |-> None, name |-> "", password |-> MakePassword("", ""),
     last_score_time |-> NoTime, created_at |-> 0, updated_at |-> 0]

NoReturn ==
    [called |-> FALSE, team |-> None, raw |-> "", checked |-> MakePassword("", ""),
     result |-> FALSE, upgraded |-> FALSE, before |-> <<>>, after |-> <<>>]

\* Team.objects.get(id=t): the request's instance is a copy of the row.
LoadTeam(t) ==
    /\ inst' = [loaded |-> TRUE, id |-> t, name |-> teamRows[t].name,
                password |-> teamRows[t].password,
                last_score_time |-> teamRows[t].last_score_time,
                created_at |-> teamRows[t].created_at, updated_at |-> teamRows[t].updated_at]
    /\ UNCHANGED <<teamRows, pwRet>>
    /\ UNCHANGED <<scoreVars, isPublic, sub, fileVars, connVars, tokenVars>>

\* Another request renames the team (Team.name is unique) or records a score.
RenameTeam(t, n) ==
    /\ \A t2 \in Teams : teamRows[t2].name # n
    /\ teamRows' = [teamRows EXCEPT ![t].name = n, ![t].updated_at = clock]
    /\ UNCHANGED <<inst, pwRet>>
    /\ UNCHANGED <<scoreVars, isPublic, sub, fileVars, connVars, tokenVars>>

ScoreTeam(t) ==
    /\ teamRows[t].last_score_time = NoTime
    /\ teamRows' = [teamRows EXCEPT ![t].last_score_time = clock, ![t].updated_at = clock]
    /\ UNCHANGED <<inst, pwRet>>
    /\ UNCHANGED <<scoreVars, isPublic, sub, fileVars, connVars, tokenVars>>

\* self.save(): every field of the instance is written, updated_at by auto_now.
SaveAll(rows, obj) ==
    [rows EXCEPT ![obj.id] =
        [name |-> obj.name, password |-> obj.password,
         last_score_time |-> obj.last_score_time, created_at |-> obj.created_at,
         updated_at |-> clock]]

\* self.save(update_fields=["password"]): the one column is written; auto_now
\* applies only to the fields that are saved.
SavePassword(rows, obj) == [rows EXCEPT ![obj.id].password = obj.password]

\* Team.set_password: the instance's field only.
SetPassword(obj, raw, salt) == [obj EXCEPT !.password = MakePassword(raw, salt)]

\* Team.check_password on the request's instance; salt is the salt
\* make_password draws when the setter runs.
CheckPassword(raw, salt) ==
    LET correct == Verify(raw, inst.password)
        upgrade == correct /\ MustUpdate(inst.password)
        obj == IF upgrade THEN SetPassword(inst, raw, salt) ELSE inst
    IN  /\ inst.loaded
        /\ inst' = obj
        /\ teamRows' = IF upgrade THEN SavePassword(teamRows, obj) ELSE teamRows
        /\ pwRet' = [called |-> TRUE, team |-> inst.id, raw |-> raw, checked |-> inst.password,
                     result |-> correct, upgraded |-> upgrade,
                     before |-> teamRows, after |-> teamRows']
        /\ UNCHANGED <<scoreVars, isPublic, sub, fileVars, connVars, tokenVars>>

(***************************************************************************)
(* Initial states: every table empty.                                      *)
(***************************************************************************)
ScoreInit ==
    /\ answers = <<>>
    /\ attackPoints = <<>>
    /\ res = "none"
    /\ isPublic = [q \in Questions |-> FALSE]
    /\ sub = [p \in Procs |-> NoSubmission]

FileIdle == files = <<>>
ConnIdle == conns = <<>> /\ clock = 0 /\ call = [p \in Procs |-> NoCall] /\ passed = {}
TokenIdle == unixTime = StartTime /\ tokenLog = {}
PwIdle == teamRows = <<>> /\ inst = NoInstance /\ pwRet = NoReturn

Init == ScoreInit /\ FileIdle /\ ConnIdle /\ TokenIdle /\ PwIdle

\* The UserConnection table when the requests arrive: empty, or holding the
\* rows of earlier sightings.
ConnInit ==
    /\ conns \in {<<>>}
                 \cup {<<[user |-> u, ip |-> ip, created_at |-> 0, updated_at |-> 0]>> :
                          u \in Users, ip \in IPs}
    /\ clock = 0
    /\ call = [p \in Procs |-> NoCall]
    /\ passed = {}

InitConn == ScoreInit /\ FileIdle /\ ConnInit /\ TokenIdle /\ PwIdle

\* Spec draws the question of a row from the row's other fields: an answer is
\* recorded against its flag's question (a wrong one against question 1) and
\* an attack point against question 1.  No derived property of the models
\* reads Answer.question or AttackPoint.question; SpecRequests and
\* SpecQuestions draw them freely.
AnsweredQuestion(f) == IF f = None THEN 1 ELSE Flag[f].question

Next ==
    \/ \E u \in Users, t \in Teams, f \in Flags \cup {None} :
           InsertAnswer(u, t, AnsweredQuestion(f), f)
    \/ \E u \in Users, t \in Teams, tok \in Tokens, pt \in AttackValues :
           InsertAttackPoint(u, t, 1, tok, pt)

Spec == Init /\ [][Next]_vars

NextRequests ==
    \/ \E p \in Procs, u \in Users, t \in Teams, q \in Questions, f \in Flags \cup {None} :
           SubmitAnswer(p, u, t, q, f)
    \/ \E p \in Procs, u \in Users, t \in Teams, q \in Questions, tok \in Tokens,
          pt \in AttackValues :
           SubmitAttackPoint(p, u, t, q, tok, pt)
    \/ \E p \in Procs : StoreInsertAnswer(p)
    \/ \E p \in Procs : StoreInsertAttackPoint(p)

SpecRequests == Init /\ [][NextRequests]_vars

NextQuestions ==
    \/ \E u \in {1}, t \in Teams, q \in Questions, f \in Flags \cup {None} :
           InsertAnswer(u, t, q, f)
    \/ \E q \in Questions, b \in BOOLEAN : SetQuestionPublic(q, b)

SpecQuestions == Init /\ [][NextQuestions]_vars

NextFiles ==
    \/ \E q \in Questions, b \in BOOLEAN : AddFile(q, b)
    \/ \E i \in 1..MaxFiles, b \in BOOLEAN : SetFilePublic(i, b)
    \/ \E q \in Questions, b \in BOOLEAN : SetQuestionPublic(q, b)

SpecFiles == Init /\ [][NextFiles]_vars

\* Requests calling UserConnection.update concurrently.
NextConn ==
    \/ \E p \in Procs, u \in Users, ip \in IPs : Call(p, u, ip)
    \/ \E p \in Procs : Get(p)
    \/ \E p \in Procs : Create(p)
    \/ \E p \in Procs : Save(p)
    \/ \E p \in Procs : Return(p)
    \/ Tick

SpecConn == InitConn /\ [][NextConn]_vars

\* One request at a time, each reading a strictly later clock.
NextSeq ==
    \/ \E u \in Users, ip \in IPs : CallLater(1, u, ip)
    \/ Get(1)
    \/ Create(1)
    \/ Save(1)
    \/ Return(1)
    \/ Tick

SpecSeq == Init /\ [][NextSeq]_vars

NextToken ==
    \/ \E team \in Teams : ReadToken(team)
    \/ TickTime

SpecToken == Init /\ [][NextToken]_vars

\* The Team table when the requests arrive: team 1 ("red") has password
\* "pw1", team 2 ("blue") has "pw2", each hashed under the algorithm that was
\* preferred when it was set, or unusable.
PwInit ==
    /\ teamRows \in
           [Teams ->
               [name : Names, password : [algorithm : {Preferred, Legacy, Unusable},
                                          salt : {"s0"}, raw : Raws],
                last_score_time : {NoTime}, created_at : {0}, updated_at : {0}]]
    /\ teamRows[1].name = "red" /\ teamRows[1].password.raw = "pw1"
    /\ teamRows[2].name = "blue" /\ teamRows[2].password.raw = "pw2"
    /\ inst = NoInstance
    /\ pwRet = NoReturn

InitPw == ScoreInit /\ FileIdle /\ ConnIdle /\ TokenIdle /\ PwInit

NextPw ==
    \/ \E t \in Teams : LoadTeam(t)
    \/ \E t \in Teams, n \in Names : RenameTeam(t, n)
    \/ \E t \in Teams : ScoreTeam(t)
    \/ \E raw \in Raws, salt \in {"s1", "s2"} : CheckPassword(raw, salt)

SpecPw == InitPw /\ [][NextPw]_vars

(***************************************************************************)
(* Properties of the scoring tables.                                       *)
(***************************************************************************)
RECURSIVE SumOver(_, _)
SumOver(S, f) ==
    IF S = {} THEN 0
    ELSE LET x == CHOOSE y \in S : TRUE IN f[x] + SumOver(S \ {x}, f)

AnswerRowsOf(t, f) == {i \in 1..Len(answers) : answers[i].team = t /\ answers[i].flag = f}
UserAnswerRowsOf(u, f) == {i \in 1..Len(answers) : answers[i].user = u /\ answers[i].flag = f}
AttackRowsOfTeam(t) == {i \in 1..Len(attackPoints) : attackPoints[i].team = t}
AttackRowsOfUser(u) == {i \in 1..Len(attackPoints) : attackPoints[i].user = u}
AttackPointValue == [i \in 1..Len(attackPoints) |-> attackPoints[i].point]

\* C1: in every state reached by Answer and AttackPoint inserts, Team.points of
\* every team is the sum of flag.point over its Answer rows with a flag (each
\* flag's point times the number of the team's rows naming that flag) plus the
\* sum of point over its AttackPoint rows, and User.points is the same with the
\* rows taken by user; rows whose flag is NULL add nothing.
C1_PointsAreTheSums ==
    /\ \A t \in Teams :
           TeamPoints(t) =
               SumOver(Flags, [f \in Flags |-> Flag[f].point * Cardinality(AnswerRowsOf(t, f))])
                 + SumOver(AttackRowsOfTeam(t), AttackPointValue)
    /\ \A u \in Users :
           UserPoints(u) =
               SumOver(Flags, [f \in Flags |-> Flag[f].point * Cardinality(UserAnswerRowsOf(u, f))])
                 + SumOver(AttackRowsOfUser(u), AttackPointValue)

\* A team holding a wrong answer (NULL flag), a correct answer and an attack
\* point, entered by different users.
C1_Witness ==
    \E t \in Teams :
        /\ AnswerRowsOf(t, None) # {}
        /\ \E f \in Flags : AnswerRowsOf(t, f) # {}
        /\ AttackRowsOfTeam(t) # {}
        /\ TeamPoints(t) = 57
        /\ UserPoints(1) = 50
        /\ UserPoints(2) = 7

AnswerPairsUnique ==
    \A t \in Teams, f \in Flags : Cardinality(AnswerRowsOf(t, f)) <= 1

Finished(p) == sub[p].pc \in {"created", "IntegrityError"}

\* The request's (team, flag) already had a row when the store took its insert.
AnswerExisted(p) ==
    /\ sub[p].row.flag # None
    /\ \E i \in 1..Len(sub[p].before) :
           /\ sub[p].before[i].team = sub[p].row.team
           /\ sub[p].before[i].flag = sub[p].row.flag

\* C2: an Answer insert for a (team, flag) that already has a row is rejected
\* with the store's IntegrityError and leaves the Answer rows (of which every
\* Team.points and User.points is a function) as they were; an insert that is
\* not rejected appends its row; so no (team, flag) ever has two rows.
C2_DuplicateAnswerRejected ==
    /\ AnswerPairsUnique
    /\ \A p \in Procs :
           (Finished(p) /\ sub[p].table = "Answer")
               => IF AnswerExisted(p)
                  THEN sub[p].pc = "IntegrityError" /\ sub[p].after = sub[p].before
                  ELSE sub[p].pc = "created" /\ sub[p].after = Append(sub[p].before, sub[p].row)

\* A second request, of another user, for a (team, flag) that had a row was
\* rejected.
C2_Witness ==
    /\ sub[1].pc = "created" /\ sub[1].table = "Answer"
    /\ sub[2].pc = "IntegrityError" /\ sub[2].table = "Answer"
    /\ AnswerExisted(2)
    /\ sub[1].row.user # sub[2].row.user
    /\ Len(answers) = 1

SamePair(p, q) ==
    /\ sub[p].table = "Answer" /\ sub[q].table = "Answer"
    /\ sub[p].row.team = sub[q].row.team
    /\ sub[p].row.flag = sub[q].row.flag
    /\ sub[p].row.flag # None

\* C3: of two concurrent submissions for one (team, flag), in every
\* interleaving one insert succeeds and the other fails the unique index; at
\* no point are there two rows for the pair, and Team.points counts the
\* flag's points once.
C3_OneOfTwoSucceeds ==
    \A p \in Procs, q \in Procs :
        (p # q /\ SamePair(p, q))
            => /\ Cardinality(AnswerRowsOf(sub[p].row.team, sub[p].row.flag)) <= 1
               /\ (Finished(p) /\ Finished(q))
                      => /\ {sub[p].pc, sub[q].pc} = {"created", "IntegrityError"}
                         /\ Cardinality(AnswerRowsOf(sub[p].row.team, sub[p].row.flag)) = 1
                         /\ TeamPoints(sub[p].row.team) = Flag[sub[p].row.flag].point

\* Two users of one team submitted the same flag and both requests are done.
C3_Witness ==
    /\ SamePair(1, 2)
    /\ Finished(1) /\ Finished(2)
    /\ sub[1].row.user # sub[2].row.user

AttackTokensUnique ==
    \A tok \in Tokens :
        Cardinality({i \in 1..Len(attackPoints) : attackPoints[i].token = tok}) <= 1

\* The request's token was already held by a row when the store took its insert.
TokenExisted(p) ==
    \E i \in 1..Len(sub[p].before) : sub[p].before[i].token = sub[p].row.token

\* C4: an AttackPoint insert whose token an existing row already holds is
\* rejected, whatever its user, team, question or point, and leaves the rows
\* as they were; an insert that is not rejected appends its row; so each
\* token is credited at most once.
C4_DuplicateTokenRejected ==
    /\ AttackTokensUnique
    /\ \A p \in Procs :
           (Finished(p) /\ sub[p].table = "AttackPoint")
               => IF TokenExisted(p)
                  THEN sub[p].pc = "IntegrityError" /\ sub[p].after = sub[p].before
                  ELSE sub[p].pc = "created" /\ sub[p].after = Append(sub[p].before, sub[p].row)

\* A second request repeating a token, with another user, team, question and
\* point, was rejected.
C4_Witness ==
    /\ sub[1].pc = "created" /\ sub[1].table = "AttackPoint"
    /\ sub[2].pc = "IntegrityError" /\ sub[2].table = "AttackPoint"
    /\ TokenExisted(2)
    /\ sub[1].row.user # sub[2].row.user
    /\ sub[1].row.team # sub[2].row.team
    /\ sub[1].row.question # sub[2].row.question
    /\ sub[1].row.point # sub[2].row.point
    /\ Len(attackPoints) = 1

FlagRowsOf(t, q) ==
    {i \in 1..Len(answers) :
        answers[i].team = t /\ answers[i].flag # None /\ Flag[answers[i].flag].question = q}

QuestionRowsOf(t, q) ==
    {i \in 1..Len(answers) : answers[i].team = t /\ answers[i].question = q}

FlagPointsOf(t, q) ==
    SumOver({f \in Flags : Flag[f].question = q},
            [f \in Flags |-> Flag[f].point * Cardinality(AnswerRowsOf(t, f))])

ListsPublicQuestions(s) ==
    /\ Len(s) = Cardinality({q \in Questions : isPublic[q]})
    /\ \A q \in Questions : isPublic[q] <=> \E i \in 1..Len(s) : s[i].id = q
    /\ \A i \in 1..Len(s), j \in 1..Len(s) :
           i < j => QuestionOrdering[s[i].id] < QuestionOrdering[s[j].id]

\* C10, amended: Team.questions holds one entry per public question, in
\* question ordering, and none for a private one; the entry for q has flags =
\* the number of the team's answer rows whose flag is not NULL and belongs to
\* q, and points = the sum of those flags' points.  A wrong answer recorded
\* against q (flag NULL) is not counted.
C10_QuestionsCountFlags ==
    \A t \in Teams :
        LET s == TeamQuestions(t)
        IN  /\ ListsPublicQuestions(s)
            /\ \A i \in 1..Len(s) :
                   /\ s[i].flags = Cardinality(FlagRowsOf(t, s[i].id))
                   /\ s[i].points = FlagPointsOf(t, s[i].id)

\* Both questions public and listed by ordering; team 1 holds both flags of
\* question 1 and a wrong answer.
C10_Witness ==
    /\ TeamQuestions(1) =
           <<[id |-> 2, flags |-> 0, points |-> 0], [id |-> 1, flags |-> 2, points |-> 150]>>
    /\ AnswerRowsOf(1, None) # {}

\* C10 as stated: flags = the number of the team's answer rows for q, that
\* is, of its rows with Answer.question = q.
C10_QuestionsCountAnswerRows ==
    \A t \in Teams :
        LET s == TeamQuestions(t)
        IN  /\ ListsPublicQuestions(s)
            /\ \A i \in 1..Len(s) :
                   /\ s[i].flags = Cardinality(QuestionRowsOf(t, s[i].id))
                   /\ s[i].points = FlagPointsOf(t, s[i].id)

(***************************************************************************)
(* Properties of connection tracking.                                      *)
(***************************************************************************)
Returning(p) == call[p].pc \in {"ret", "done"}

OneRowPerPair ==
    /\ \A u \in Users, ip \in IPs : Cardinality(ConnIds(u, ip)) <= 1
    /\ \A pair \in passed : Cardinality(ConnIds(pair[1], pair[2])) = 1

\* What a call that found its pair already stored has done by the time it
\* returns.
RefreshedExisting(p) ==
    LET c == call[p]
    IN  /\ ~c.created
        /\ c.id = c.saw.id
        /\ c.obj.user = c.user /\ c.obj.ip = c.ip
        /\ c.obj.created_at = c.saw.row.created_at
        /\ c.began <= c.obj.updated_at /\ c.obj.updated_at <= clock
        /\ conns[c.id].user = c.user /\ conns[c.id].ip = c.ip
        /\ conns[c.id].created_at = c.saw.row.created_at
        /\ conns[c.id].updated_at >= c.obj.updated_at
        /\ (c.began > c.saw.row.updated_at) => (conns[c.id].updated_at > c.saw.row.updated_at)

\* C5: however the UserConnection.update calls interleave, no (user, ip) has
\* two rows and every pair a returned call passed has exactly one; a call for
\* a pair that was already stored creates no row, returns that row, leaves its
\* created_at as it was and sets its updated_at to the clock of the call (no
\* earlier than the call began, and strictly later than the value the call
\* found if the clock has advanced past it).
C5_UpdateKeepsOneRow ==
    /\ OneRowPerPair
    /\ \A p \in Procs : (Returning(p) /\ call[p].saw.found) => RefreshedExisting(p)

\* Two calls with the same pair have returned, the first having created the
\* row, the second having found it and refreshed it at a later clock.
C5_Witness ==
    /\ call[1].pc = "done" /\ call[2].pc = "done"
    /\ call[1].user = call[2].user /\ call[1].ip = call[2].ip
    /\ call[1].created
    /\ call[2].saw.found
    /\ Len(conns) = 1
    /\ conns[1].updated_at > conns[1].created_at

\* C8: User.ip is None exactly when the user has no UserConnection row, and
\* otherwise the ip of a row of the user than which none has a greater
\* updated_at; with the calls made one after the other under a strictly
\* increasing clock, once update(u, ip) has done its work User.ip of u is ip.
C8_IpIsLatestSeen ==
    /\ \A u \in Users :
           /\ (NoIp \in UserIp(u)) <=> (\A i \in 1..Len(conns) : conns[i].user # u)
           /\ (NoIp \in UserIp(u)) => UserIp(u) = {NoIp}
           /\ \A ip \in IPs :
                  (ip \in UserIp(u)) <=>
                      \E i \in 1..Len(conns) :
                          /\ conns[i].user = u /\ conns[i].ip = ip
                          /\ \A j \in 1..Len(conns) :
                                 conns[j].user = u => conns[j].updated_at <= conns[i].updated_at
    /\ Returning(1) => UserIp(call[1].user) = {call[1].ip}

\* The call found its ip seen before, with another ip of the same user seen
\* since.
C8_Witness ==
    /\ call[1].pc = "done"
    /\ call[1].saw.found
    /\ \E i \in 1..Len(conns) :
           /\ conns[i].user = call[1].user
           /\ conns[i].ip # call[1].ip
           /\ conns[i].updated_at > call[1].saw.row.updated_at
    /\ UserIp(call[1].user) = {call[1].ip}
    /\ \E u \in Users : UserIp(u) = {NoIp}

(***************************************************************************)
(* Properties of file visibility.                                          *)
(***************************************************************************)
\* C6: a File is in a Question's public file list, as Question.files gives it
\* and as File.objects.public() gives it, only if the File and its Question
\* are both public.
C6_PublicFilesOnly ==
    /\ \A q \in Questions : \A i \in QuestionFiles(q) : files[i].is_public /\ isPublic[q]
    /\ \A i \in FilePublic : files[i].is_public /\ isPublic[files[i].question]

(***************************************************************************)
(* Properties of the team token.                                           *)
(***************************************************************************)
\* C7: for one team, the tokens read at two times are equal exactly when the
\* two times lie in the same bucket (the same integer quotient by the
\* interval); and a token read earlier equals the team's current token exactly
\* while the current time is still in the bucket it was read in.
C7_TokenStableWithinBucket ==
    /\ \A a \in tokenLog, b \in tokenLog :
           a.team = b.team =>
               ((a.token = b.token) <=>
                    (a.at \div TEAM_TOKEN_INTERVAL = b.at \div TEAM_TOKEN_INTERVAL))
    /\ \A a \in tokenLog :
           (a.token = TeamToken(a.team, unixTime)) <=>
               (a.at \div TEAM_TOKEN_INTERVAL = unixTime \div TEAM_TOKEN_INTERVAL)

\* One team read its token twice within a bucket and again one second later,
\* across the boundary where the bucket goes from one digit to two.
C7_Witness ==
    \E a \in tokenLog, b \in tokenLog, c \in tokenLog :
        /\ a.team = b.team /\ b.team = c.team
        /\ a.at = 28 /\ b.at = 29 /\ c.at = 30
        /\ a.token = b.token
        /\ b.token # c.token
        /\ unixTime = 30

(***************************************************************************)
(* Properties of the team password.                                        *)
(***************************************************************************)
SameBut(before, after, t) ==
    /\ \A t2 \in Teams \ {t} : after[t2] = before[t2]
    /\ after[t].name = before[t].name
    /\ after[t].last_score_time = before[t].last_score_time
    /\ after[t].created_at = before[t].created_at
    /\ after[t].updated_at = before[t].updated_at

\* C9: check_password returns whether the raw password verifies against the
\* hash the instance held; when no upgrade is due the Team table is left as
\* it was; when it rehashes, only the password of that team's row changes
\* (name, last_score_time, created_at and the other rows stay), and the new
\* stored hash verifies the same raw password.
C9_RehashTouchesPasswordOnly ==
    pwRet.called =>
        /\ pwRet.result = Verify(pwRet.raw, pwRet.checked)
        /\ pwRet.upgraded => pwRet.result
        /\ ~pwRet.upgraded => pwRet.after = pwRet.before
        /\ pwRet.upgraded =>
               /\ SameBut(pwRet.before, pwRet.after, pwRet.team)
               /\ Verify(pwRet.raw, pwRet.after[pwRet.team].password)
               /\ pwRet.after[pwRet.team].password.algorithm = Preferred

\* A legacy hash was just upgraded through an instance loaded before the team
\* was renamed and scored.
C9_Witness ==
    /\ pwRet.called /\ pwRet.upgraded
    /\ pwRet.checked.algorithm = Legacy
    /\ inst.name # pwRet.after[pwRet.team].name
    /\ inst.last_score_time # pwRet.after[pwRet.team].last_score_time
    /\ teamRows = pwRet.after

====
